---- MODULE Spec2Model ----
(***************************************************************************)
(* State-machine model of the 2D fluid simulation orchestrator             *)
(* (FlipParticlesSimulation.h) and of the surface-tension test driver      *)
(* (testsurfacetension.cpp: display / keyboard callbacks).                 *)
(*                                                                         *)
(* Real numbers are exact rationals <<n, d>> in lowest terms with d >= 0;  *)
(* <<1, 0>> is the IEEE value +infinity (x / inf = 0, inf + x = inf).      *)
(* Floating-point rounding is not modelled.                                *)
(***************************************************************************)
EXTENDS Integers, Sequences, FiniteSets, TLC

VARIABLES
    \* ---- FlipParticlesSimulation members (FlipParticlesSimulation.h:122-141)
    m_vel,                \* max magnitude of the velocity grid (rational)
    m_surface,            \* liquid level set: [xform, size, cells]
    m_variableviscosity,  \* viscosity grid: [xform, size, val]
    m_solve_viscosity,
    m_volume_correction,
    m_st_scale,
    m_target_volume,
    m_accum_error,
    \* ---- observation of the orchestrator
    aborted,              \* an assert / contract check failed: the process is gone
    call,                 \* the last public operation called and how it ended
    stages,               \* the step stages the last operation called executed, in order
    called,               \* the setup operations that have been called and returned
    \* ---- driver globals (testsurfacetension.cpp:18-29) and display() locals
    g_run,
    g_single_run,
    g_dirty_display,
    g_print_screen,
    g_first_sim,
    pc,                   \* "idle" between callbacks, "loop" at the while test, "after" past the loop
    frame_time,
    \* ---- observation of the driver
    sub,                  \* the last loop iteration of display(): whether it called the
                          \* simulation, its dt, the velocity run_simulation started from
    passed,               \* sum of the dt passed to run_simulation in this display() call
    broke,                \* this display() call has computed a dt <= 0
    disp                  \* the last finished display() call

simvars == <<m_vel, m_surface, m_variableviscosity, m_solve_viscosity,
             m_volume_correction, m_st_scale, m_target_volume, m_accum_error>>
obsvars == <<aborted, call, stages, called>>
drvvars == <<g_run, g_single_run, g_dirty_display, g_print_screen, g_first_sim, pc,
             frame_time, sub, passed, broke, disp>>
vars == <<simvars, obsvars, drvvars>>

-----------------------------------------------------------------------------
(* Exact rational arithmetic standing for the C++ type Real.               *)

\* Euclid's algorithm, as a function so that its arguments are values
gcd[p \in Nat \X Nat] ==
    IF p[2] = 0 THEN p[1] ELSE gcd[<<p[2], p[1] % p[2]>>]

GCD(a, b) == gcd[<<a, b>>]

Abs(n) ==
    IF n < 0 THEN -n ELSE n

Norm(n, d) ==
    LET g == GCD(Abs(n), Abs(d))
    IN  IF g = 0 THEN <<0, 1>> ELSE <<n \div g, d \div g>>

Zero == <<0, 1>>

Infinity == <<1, 0>>

IsInf(x) == x[2] = 0

RAdd(x, y) == Norm(x[1] * y[2] + y[1] * x[2], x[2] * y[2])

RSub(x, y) == Norm(x[1] * y[2] - y[1] * x[2], x[2] * y[2])

RMul(x, y) == Norm(x[1] * y[1], x[2] * y[2])

RDiv(x, y) == Norm(x[1] * y[2], x[2] * y[1])

RLess(x, y) == x[1] * y[2] < y[1] * x[2]

RLeq(x, y) == x[1] * y[2] <= y[1] * x[2]

RAbs(x) == <<Abs(x[1]), x[2]>>

-----------------------------------------------------------------------------
(* Program constants.                                                      *)

\* Real g_dt = 1. / 120.
g_dt == <<1, 120>>

\* Real g_dx = 0.025
g_dx == <<1, 40>>

\* the force the driver applies: Vec2R(0., -1.), of magnitude 1
ForceMag == <<1, 1>>

\* g_sim->set_surface_tension(10.)
MainStScale == 10

-----------------------------------------------------------------------------
(* Bounds of the model.                                                    *)

\* cells of the miniature liquid grid
NCells == 1

\* distinct Transforms / grid sizes a caller can hand in (1 is the simulation's own)
NXforms == 2

\* |m_accum_error| is explored up to this many cell volumes
MaxErr == 1

\* slow velocity magnitudes are k/120 for k in 0..MaxVelK
MaxVelK == 2

\* the fast velocity magnitude a step can end with
FastVel == 12

-----------------------------------------------------------------------------
(* The orchestrator: FlipParticlesSimulation.                              *)

\* const Transform& xform handed to the constructor
OwnXform == 1

\* Vec2st nx handed to the constructor
OwnSize == 1

\* a default-constructed ScalarGrid<Real>
NoField == [xform |-> 0, size |-> 0, val |-> 0]

\* what `call` holds when no operation has been called yet
NoCall == [op |-> "none", ok |-> TRUE, arg |-> NoField, pre_visc |-> NoField, pre_flag |-> FALSE]

Called(name, okay) ==
    [op |-> name, ok |-> okay, arg |-> NoField, pre_visc |-> NoField, pre_flag |-> FALSE]

\* the level sets a caller can inject
SurfaceInputs ==
    [xform : 1..NXforms, size : {OwnSize}, cells : SUBSET (1..NCells)]

\* the viscosity grids a caller can inject
FieldInputs ==
    [xform : 1..NXforms, size : 1..NXforms, val : {1}]

StScales == {0, MainStScale}

\* LevelSet2D(m_xform, nx, nb): no liquid yet
ConstructedSurface == [xform |-> OwnXform, size |-> OwnSize, cells |-> {}]

\* Real compute_volume(bool liquid) const: area of the liquid, or of the rest
compute_volume(surface, liquid) ==
    IF liquid THEN Cardinality(surface.cells) ELSE NCells - Cardinality(surface.cells)

\* m_surface.is_matched(grid): same Transform and same size
is_matched(surface, grid) ==
    surface.xform = grid.xform /\ surface.size = grid.size

\* Real max_vel_mag() { return m_vel.max_magnitude(); }
max_vel_mag == m_vel

\* the velocity magnitudes a step can end with
VelOutcomes ==
    {Norm(k, 120) : k \in 0..MaxVelK} \cup {<<1, 2>>, <<FastVel, 1>>}

\* FlipParticlesSimulation(const Transform& xform, Vec2st nx, size_t nb)
Constructed ==
    /\ m_vel = Zero
    /\ m_surface = ConstructedSurface
    /\ m_variableviscosity = NoField
    /\ m_solve_viscosity = FALSE
    /\ m_volume_correction = FALSE
    /\ m_st_scale = 0
    \* m_target_volume and m_accum_error are not initialised by the constructor
    /\ m_target_volume \in 0..NCells
    /\ m_accum_error \in -MaxErr..MaxErr
    /\ aborted = FALSE
    /\ call = NoCall
    /\ stages = <<>>
    /\ called = {}

\* the driver does not run in the specification of the orchestrator alone
DriverIdle ==
    /\ g_run = FALSE
    /\ g_single_run = FALSE
    /\ g_dirty_display = TRUE
    /\ g_print_screen = FALSE
    /\ g_first_sim = TRUE
    /\ pc = "idle"
    /\ frame_time = Zero
    /\ sub = [called |-> FALSE, dt |-> Zero, atrun |-> Zero]
    /\ passed = Zero
    /\ broke = FALSE
    /\ disp = [done |-> FALSE, active |-> FALSE, single |-> FALSE, simulated |-> FALSE,
               passed |-> Zero, broke |-> FALSE]

\* void set_surface_volume(const LevelSet2D& surface)
set_surface_volume(surface) ==
    /\ ~aborted
    /\ IF is_matched(m_surface, surface)
       THEN /\ m_surface' = surface
            /\ called' = called \cup {"set_surface_volume"}
            /\ call' = Called("set_surface_volume", TRUE)
            /\ aborted' = FALSE
       ELSE /\ aborted' = TRUE
            /\ call' = Called("set_surface_volume", FALSE)
            /\ UNCHANGED <<m_surface, called>>
    /\ UNCHANGED <<m_vel, m_variableviscosity, m_solve_viscosity,
                   m_volume_correction, m_st_scale, m_target_volume, m_accum_error>>
    /\ stages' = <<>>

\* void set_surface_tension(Real st_scale)
set_surface_tension(st_scale) ==
    /\ ~aborted
    /\ m_st_scale' = st_scale
    /\ call' = Called("set_surface_tension", TRUE)
    /\ UNCHANGED <<m_vel, m_surface, m_variableviscosity, m_solve_viscosity,
                   m_volume_correction, m_target_volume, m_accum_error, aborted, called>>
    /\ stages' = <<>>

\* mutant: the setter forgets to reset the accumulated error
set_volume_correction_keeps_error ==
    /\ ~aborted
    /\ m_volume_correction' = TRUE
    /\ m_target_volume' = compute_volume(m_surface, TRUE)
    /\ call' = Called("set_volume_correction", TRUE)
    /\ called' = called \cup {"set_volume_correction"}
    /\ UNCHANGED <<m_vel, m_surface, m_variableviscosity, m_solve_viscosity,
                   m_st_scale, m_accum_error, aborted>>
    /\ stages' = <<>>

\* mutant: the setter asserts that the surface has been injected
set_volume_correction_asserting ==
    /\ ~aborted
    /\ IF "set_surface_volume" \in called
       THEN /\ m_volume_correction' = TRUE
            /\ m_target_volume' = compute_volume(m_surface, TRUE)
            /\ m_accum_error' = 0
            /\ call' = Called("set_volume_correction", TRUE)
            /\ called' = called \cup {"set_volume_correction"}
            /\ aborted' = FALSE
       ELSE /\ aborted' = TRUE
            /\ call' = Called("set_volume_correction", FALSE)
            /\ UNCHANGED <<m_volume_correction, m_target_volume, m_accum_error, called>>
    /\ UNCHANGED <<m_vel, m_surface, m_variableviscosity, m_solve_viscosity,
                   m_st_scale>>
    /\ stages' = <<>>

\* void set_volume_correction()
set_volume_correction ==
    /\ ~aborted
    /\ m_volume_correction' = TRUE
    /\ m_target_volume' = compute_volume(m_surface, TRUE)
    /\ m_accum_error' = 0
    /\ call' = Called("set_volume_correction", TRUE)
    /\ called' = called \cup {"set_volume_correction"}
    /\ UNCHANGED <<m_vel, m_surface, m_variableviscosity, m_solve_viscosity,
                   m_st_scale, aborted>>
    /\ stages' = <<>>

\* mutant: no assertion, the field is stored whatever its Transform and size
set_viscosity_field_unchecked(visc_coeff) ==
    /\ ~aborted
    /\ call' = [op |-> "set_viscosity", ok |-> TRUE, arg |-> visc_coeff,
                pre_visc |-> m_variableviscosity, pre_flag |-> m_solve_viscosity]
    /\ m_variableviscosity' = visc_coeff
    /\ m_solve_viscosity' = TRUE
    /\ called' = called \cup {"set_viscosity"}
    /\ UNCHANGED <<m_vel, m_surface, m_volume_correction, m_st_scale,
                   m_target_volume, m_accum_error, aborted>>
    /\ stages' = <<>>

\* void set_viscosity(const ScalarGrid<Real>& visc_coeff), assertions compiled in
set_viscosity_field(visc_coeff) ==
    /\ ~aborted
    /\ IF is_matched(m_surface, visc_coeff)
       THEN /\ m_variableviscosity' = visc_coeff
            /\ m_solve_viscosity' = TRUE
            /\ called' = called \cup {"set_viscosity"}
            /\ aborted' = FALSE
       ELSE /\ aborted' = TRUE
            /\ UNCHANGED <<m_variableviscosity, m_solve_viscosity, called>>
    /\ call' = [op |-> "set_viscosity", ok |-> is_matched(m_surface, visc_coeff),
                arg |-> visc_coeff,
                pre_visc |-> m_variableviscosity, pre_flag |-> m_solve_viscosity]
    /\ UNCHANGED <<m_vel, m_surface, m_volume_correction, m_st_scale,
                   m_target_volume, m_accum_error>>
    /\ stages' = <<>>

\* void set_viscosity(Real visc_coeff = 1.)
set_viscosity_uniform(visc_coeff) ==
    /\ ~aborted
    /\ m_variableviscosity' = [xform |-> m_surface.xform, size |-> m_surface.size,
                               val |-> visc_coeff]
    /\ m_solve_viscosity' = TRUE
    /\ call' = Called("set_viscosity_uniform", TRUE)
    /\ called' = called \cup {"set_viscosity"}
    /\ UNCHANGED <<m_vel, m_surface, m_volume_correction,
                   m_st_scale, m_target_volume, m_accum_error, aborted>>
    /\ stages' = <<>>

\* whether stage i of a step runs, given the feature flags
StageRuns(i, solve_viscosity, st_scale, volume_correction) ==
    CASE i \in {2, 7} -> solve_viscosity
      [] i = 5 -> st_scale # 0
      [] i = 9 -> volume_correction
      [] OTHER -> TRUE

\* mutant: the viscosity solve is done before the pressure projection
RunStagesViscosityFirst(solve_viscosity, st_scale, volume_correction) ==
    SelectSeq(<<1, 2, 3, 4, 5, 7, 6, 8, 9>>,
              LAMBDA i : StageRuns(i, solve_viscosity, st_scale, volume_correction))

\* the stages one step executes, in order:
\* 1 advect surface, 2 advect viscosity, 3 advect velocity, 4 reinitialise,
\* 5 surface tension, 6 pressure projection, 7 viscosity solve, 8 extrapolate,
\* 9 volume correction
RunStages(solve_viscosity, st_scale, volume_correction) ==
    SelectSeq(<<1, 2, 3, 4, 5, 6, 7, 8, 9>>,
              LAMBDA i : StageRuns(i, solve_viscosity, st_scale, volume_correction))

\* the liquid cells after advection: a field at rest, or a finite one advected for no
\* time, stays (an infinite velocity times zero time is not a number)
AdvectedCells(cells, vel, dt) ==
    IF vel = Zero \/ (dt = Zero /\ ~IsInf(vel)) THEN {cells} ELSE SUBSET (1..NCells)

\* the velocity magnitudes a step can leave: without surface tension a step adds
\* no energy; with it, or once the field has overflowed, anything can come out
StepVelocities(vel, st_scale) ==
    IF IsInf(vel) THEN {Infinity}
    ELSE IF st_scale = 0 THEN {v \in VelOutcomes : RLeq(v, vel)}
    ELSE VelOutcomes \cup {Infinity}

\* the magnitudes the grid can have after force * dt is added to every sample
AddForceOutcomes(vel, force, dt) ==
    {RAdd(vel, RMul(force, dt)), RAbs(RSub(vel, RMul(force, dt)))}

\* void add_force(const Vec2R& force, Real dt): `after` is the new magnitude
add_force(force, dt, after) ==
    /\ ~aborted
    /\ after \in AddForceOutcomes(m_vel, force, dt)
    /\ m_vel' = after
    /\ call' = Called("add_force", TRUE)
    /\ UNCHANGED <<m_surface, m_variableviscosity, m_solve_viscosity,
                   m_volume_correction, m_st_scale, m_target_volume, m_accum_error,
                   aborted, called>>
    /\ stages' = <<>>

\* void run_simulation(Real dt, Renderer& renderer), entered with magnitude `vel`
run_simulation(dt, vel) ==
    /\ ~aborted
    /\ stages' = RunStages(m_solve_viscosity, m_st_scale, m_volume_correction)
    /\ \E cells \in AdvectedCells(m_surface.cells, vel, dt) :
          /\ m_surface' = [m_surface EXCEPT !.cells = cells]
          /\ m_accum_error' =
                IF m_volume_correction
                THEN m_accum_error + (compute_volume(m_surface', TRUE) - m_target_volume)
                ELSE m_accum_error
          /\ m_accum_error' \in -MaxErr..MaxErr
    /\ m_vel' \in StepVelocities(vel, m_st_scale)
    /\ call' = Called("run_simulation", TRUE)
    /\ UNCHANGED <<m_variableviscosity, m_solve_viscosity,
                   m_volume_correction, m_st_scale, m_target_volume, aborted, called>>

\* the sub-step sizes a caller of the orchestrator hands in
DtInputs == {g_dt}

\* the state after construction
Init ==
    /\ Constructed
    /\ DriverIdle

\* a client calls the public operations in any order
Next ==
    \/ \E surface \in SurfaceInputs : set_surface_volume(surface) /\ UNCHANGED drvvars
    \/ \E st_scale \in StScales : set_surface_tension(st_scale) /\ UNCHANGED drvvars
    \/ set_volume_correction /\ UNCHANGED drvvars
    \/ \E visc_coeff \in FieldInputs : set_viscosity_field(visc_coeff) /\ UNCHANGED drvvars
    \/ set_viscosity_uniform(1) /\ UNCHANGED drvvars
    \/ \E dt \in DtInputs : \E after \in AddForceOutcomes(m_vel, ForceMag, dt) :
          /\ RLeq(after, Norm(MaxVelK, 120))
          /\ add_force(ForceMag, dt, after)
          /\ UNCHANGED drvvars
    \/ \E dt \in DtInputs : run_simulation(dt, m_vel) /\ UNCHANGED drvvars

Spec == Init /\ [][Next]_vars

-----------------------------------------------------------------------------
(* The driver: main(), display() and keyboard() of testsurfacetension.cpp. *)

\* what `sub` holds when no loop iteration has run in this display() call
NoSub == [called |-> FALSE, dt |-> Zero, atrun |-> Zero]

\* what `disp` holds before the first display() call
NoDisplay == [done |-> FALSE, active |-> FALSE, single |-> FALSE, simulated |-> FALSE,
              passed |-> Zero, broke |-> FALSE]

\* velmag > 1E-10: every magnitude of the model is 0 or far above 1E-10
ExceedsEps(velmag) == velmag[1] > 0

\* Real velmag = g_first_sim ? 1 : g_sim->max_vel_mag()
QueriedVelmag == IF g_first_sim THEN <<1, 1>> ELSE max_vel_mag

\* 3. * g_dx * g_dx
CflNumerator == RMul(<<3, 1>>, RMul(g_dx, g_dx))

\* mutant: the CFL step is not throttled to the rest of the frame
SubstepDtUnthrottled(velmag, ft) ==
    IF ExceedsEps(velmag)
    THEN RDiv(CflNumerator, velmag)
    ELSE RSub(g_dt, ft)

\* mutant: no CFL rule, every sub-step takes the rest of the frame
SubstepDtNoCfl(velmag, ft) == RSub(g_dt, ft)

\* the sub-step size of one loop iteration: the CFL step 3 dx dx / velmag,
\* throttled to the rest of the frame
SubstepDt(velmag, ft) ==
    IF ExceedsEps(velmag)
    THEN LET cfl == RDiv(CflNumerator, velmag)
         IN  IF RLess(RSub(g_dt, ft), cfl) THEN RSub(g_dt, ft) ELSE cfl
    ELSE RSub(g_dt, ft)

\* mutant: the sub-step time is not accumulated
AccumulatedTimeStuck(ft, dt) == ft

\* frame_time += dt
AccumulatedTime(ft, dt) == RAdd(ft, dt)

\* mutant: the safety check is missing
NeverBreak(dt) == FALSE

\* if (dt <= 0.) break
ShouldBreak(dt) == RLeq(dt, Zero)

\* the dt handed to add_force: g_sim->add_force(Vec2R(0., -1.), g_dt)
ForceDt(dt) == g_dt

\* the state main() leaves when it enters the renderer's loop; the scene of the
\* test runs with surface tension 10, the gravity-only scenario with 0
DriverInit ==
    /\ m_vel = Zero
    /\ m_surface = [xform |-> OwnXform, size |-> OwnSize, cells |-> 1..NCells]
    /\ m_variableviscosity = NoField
    /\ m_solve_viscosity = FALSE
    /\ m_volume_correction = FALSE
    /\ m_st_scale \in StScales
    \* main() never enables volume correction: the two members below stay
    \* uninitialised and are never read, so one value stands for all
    /\ m_target_volume = 0
    /\ m_accum_error = 0
    /\ aborted = FALSE
    /\ call = Called("set_surface_tension", TRUE)
    /\ stages = <<>>
    /\ called = {"set_surface_volume"}
    /\ DriverIdle

\* display() while neither g_run nor g_single_run is set: only redraws
display_paused ==
    /\ pc = "idle"
    /\ ~(g_run \/ g_single_run)
    /\ g_dirty_display' = FALSE
    /\ disp' = [NoDisplay EXCEPT !.done = TRUE]
    /\ UNCHANGED <<simvars, obsvars, g_run, g_single_run, g_print_screen, g_first_sim, pc,
                   frame_time, sub, passed, broke>>

\* display() with g_run or g_single_run set: Real frame_time = 0., up to the while test
display_enter ==
    /\ pc = "idle"
    /\ g_run \/ g_single_run
    /\ pc' = "loop"
    /\ frame_time' = Zero
    /\ passed' = Zero
    /\ broke' = FALSE
    /\ sub' = NoSub
    /\ disp' = [NoDisplay EXCEPT !.active = TRUE, !.single = (g_single_run /\ ~g_run)]
    /\ UNCHANGED <<simvars, obsvars, g_run, g_single_run, g_dirty_display, g_print_screen,
                   g_first_sim>>

\* one iteration of while (frame_time < g_dt)
display_substep ==
    /\ pc = "loop"
    /\ RLess(frame_time, g_dt)
    /\ \E dt \in {SubstepDt(QueriedVelmag, frame_time)} :
           /\ g_first_sim' = FALSE
           /\ frame_time' = AccumulatedTime(frame_time, dt)
           /\ broke' = (broke \/ RLeq(dt, Zero))
           /\ IF ShouldBreak(dt)
              THEN /\ pc' = "after"
                   /\ sub' = [called |-> FALSE, dt |-> dt, atrun |-> m_vel]
                   /\ UNCHANGED <<simvars, obsvars, passed, disp>>
              ELSE /\ pc' = "loop"
                   /\ \E atrun \in AddForceOutcomes(m_vel, ForceMag, ForceDt(dt)) :
                         /\ run_simulation(dt, atrun)
                         /\ sub' = [called |-> TRUE, dt |-> dt, atrun |-> atrun]
                   /\ passed' = RAdd(passed, dt)
                   /\ disp' = [disp EXCEPT !.simulated = TRUE]
    /\ UNCHANGED <<g_run, g_single_run, g_dirty_display, g_print_screen>>

\* mutant: g_single_run is not cleared after the frame
display_finish_keeps_single ==
    /\ \/ pc = "after"
       \/ pc = "loop" /\ ~RLess(frame_time, g_dt)
    /\ g_dirty_display' = FALSE
    /\ pc' = "idle"
    /\ frame_time' = Zero
    /\ sub' = NoSub
    /\ disp' = [disp EXCEPT !.done = TRUE, !.passed = passed, !.broke = broke]
    /\ UNCHANGED <<simvars, obsvars, g_run, g_single_run, g_print_screen, g_first_sim,
                   passed, broke>>

\* display() from the end of the loop to its return
display_finish ==
    /\ \/ pc = "after"
       \/ pc = "loop" /\ ~RLess(frame_time, g_dt)
    /\ g_single_run' = FALSE
    /\ g_dirty_display' = FALSE
    /\ pc' = "idle"
    /\ frame_time' = Zero
    /\ sub' = NoSub
    /\ disp' = [disp EXCEPT !.done = TRUE, !.passed = passed, !.broke = broke]
    /\ UNCHANGED <<simvars, obsvars, g_run, g_print_screen, g_first_sim, passed, broke>>

Keys == {" ", "n", "p", "q"}

\* void keyboard(unsigned char key, int x, int y)
keyboard(key) ==
    /\ pc = "idle"
    /\ g_run' = IF key = " " THEN ~g_run ELSE g_run
    /\ g_single_run' = IF key = "n" THEN TRUE ELSE g_single_run
    /\ g_print_screen' = IF key = "p" THEN ~g_print_screen ELSE g_print_screen
    /\ disp' = [disp EXCEPT !.done = FALSE]
    /\ UNCHANGED <<simvars, obsvars, g_dirty_display, g_first_sim, pc, frame_time, sub,
                   passed, broke>>

\* the renderer calls display() and keyboard() one at a time
DriverNext ==
    \/ display_paused
    \/ display_enter
    \/ display_substep
    \/ display_finish
    \/ \E key \in Keys : keyboard(key)

DriverSpec == DriverInit /\ [][DriverNext]_vars

\* the while test of display(): another iteration is due
SubstepEnabled == pc = "loop" /\ RLess(frame_time, g_dt)

\* SubstepEnabled is exactly the enabling condition of a display_substep
\* step that changes the state (an invariant of DriverSpec)
SubstepEnabledIsEnabled == SubstepEnabled <=> ENABLED <<display_substep>>_vars

\* weak fairness of display_substep, WF_vars(display_substep), written out
\* with SubstepEnabled for ENABLED <<display_substep>>_vars
SubstepFair == []<>(~SubstepEnabled) \/ []<><<display_substep>>_vars

\* display() is sequential code: once entered it runs to its return
LiveSpec ==
    /\ DriverInit
    /\ [][DriverNext]_vars
    /\ SubstepFair
    /\ WF_vars(display_finish)

-----------------------------------------------------------------------------
(* Claims about the orchestrator, checked under Spec.                      *)

\* C1: every call to set_volume_correction() leaves the volume-correction flag
\* true, the target volume equal to the liquid volume of the surface at the
\* moment of the call, and the accumulated error exactly zero.
C1_VolumeCorrectionCaptures ==
    call.op = "set_volume_correction" =>
        /\ m_volume_correction
        /\ m_target_volume = compute_volume(m_surface, TRUE)
        /\ m_accum_error = 0

\* C1 witness: the setter has run on an injected, non-empty surface
C1_Witness ==
    /\ call.op = "set_volume_correction"
    /\ "set_surface_volume" \in called
    /\ m_target_volume = NCells

\* C2 as stated: set_volume_correction() before set_surface_volume fails fast
C2_FailsFastBeforeSetup ==
    (call.op = "set_volume_correction" /\ "set_surface_volume" \notin called) =>
        (aborted /\ ~call.ok)

\* C2 as amended: set_volume_correction() before set_surface_volume is not
\* detected; the call returns normally with volume correction enabled, the
\* target captured from the surface as it stands and the error zero.
C2_ProceedsBeforeSetup ==
    (call.op = "set_volume_correction" /\ "set_surface_volume" \notin called) =>
        /\ ~aborted
        /\ call.ok
        /\ m_volume_correction
        /\ m_target_volume = compute_volume(m_surface, TRUE)
        /\ m_accum_error = 0

\* C2 witness: the setter has returned on a surface that was never injected
C2_Witness ==
    /\ call.op = "set_volume_correction"
    /\ "set_surface_volume" \notin called
    /\ m_surface = ConstructedSurface
    /\ m_volume_correction

\* C3: set_viscosity(field) with a field not matched to the liquid surface grid
\* fails at the assertion with the stored viscosity field and the solve flag
\* unchanged; with a matched field it stores the field and sets the flag.
C3_SetViscosityChecksMatch ==
    call.op = "set_viscosity" =>
        IF is_matched(m_surface, call.arg)
        THEN /\ call.ok
             /\ ~aborted
             /\ m_variableviscosity = call.arg
             /\ m_solve_viscosity
        ELSE /\ ~call.ok
             /\ aborted
             /\ m_variableviscosity = call.pre_visc
             /\ m_solve_viscosity = call.pre_flag

\* C3 witness: a mismatched field was refused after viscosity had been enabled
C3_Witness ==
    /\ call.op = "set_viscosity"
    /\ ~is_matched(m_surface, call.arg)
    /\ aborted
    /\ call.pre_flag
    /\ m_variableviscosity # NoField

-----------------------------------------------------------------------------
(* Claims about the driver, checked under DriverSpec and LiveSpec.         *)

C6_NonPositiveStepStops ==
    /\ sub.called => RLess(Zero, sub.dt)
    /\ broke => (pc # "loop" /\ ~sub.called)

\* C6 witness: after some sub-steps of a frame a dt <= 0 was computed
C6_Witness ==
    /\ broke
    /\ pc = "after"
    /\ disp.simulated
    /\ RLeq(sub.dt, Zero)

\* C7 as stated: whenever display() simulates, the sub-step times passed to
\* run_simulation add up to exactly g_dt when the loop exits.
C7_SumIsFrameTime ==
    (disp.done /\ disp.active) => disp.passed = g_dt

\* C7 as amended: the accumulated time never exceeds g_dt and equals the sum
\* of the dt passed to run_simulation; when the loop exits it is exactly g_dt
\* unless the exit is the dt <= 0 break, and then it is below g_dt.
C7_SumIsFrameTimeUnlessBreak ==
    /\ pc \in {"loop", "after"} => (passed = frame_time /\ RLeq(frame_time, g_dt))
    /\ (disp.done /\ disp.active) =>
           IF disp.broke THEN RLess(disp.passed, g_dt) ELSE disp.passed = g_dt

\* C7 witness: the loop is about to exit after a frame of several sub-steps
C7_Witness ==
    /\ pc = "loop"
    /\ ~RLess(frame_time, g_dt)
    /\ sub.called
    /\ RLess(sub.dt, g_dt)
    /\ passed = g_dt

\* C8: the velocity magnitude in the grid when run_simulation is invoked,
\* times the dt it is invoked with, is at most 3 cell widths.
C8_CflBound ==
    sub.called => RLeq(RMul(sub.atrun, sub.dt), RMul(<<3, 1>>, g_dx))

\* C8 witness: a CFL-limited sub-step ran at a velocity above the fast one
C8_Witness ==
    /\ sub.called
    /\ RLess(<<FastVel, 1>>, sub.atrun)
    /\ RLess(sub.dt, RSub(g_dt, RSub(frame_time, sub.dt)))

\* C9: the sub-step loop of display() terminates in every frame.
C9_LoopTerminates ==
    (pc = "loop") ~> (pc = "idle")

\* C9 witness: a frame of sub-steps at the fast velocity has been completed
C9_Witness ==
    /\ pc = "idle"
    /\ disp.done
    /\ disp.simulated
    /\ ~disp.broke
    /\ m_vel = <<FastVel, 1>>

\* C10 as stated: a display() call entered with only g_single_run set
\* simulates one frame of length g_dt and leaves g_single_run false.
C10_SingleStepIsOneFrame ==
    (disp.done /\ disp.single) => (disp.passed = g_dt /\ ~g_single_run)

\* C10 as amended: from a paused state no callback touches the simulation; a
\* display() call made with g_run or g_single_run set always goes through
\* the sub-step loop; a call entered with only g_single_run set simulates
\* sub-steps that add up to g_dt, or to less when the dt <= 0 break ended
\* the frame; g_single_run is false when display() returns.
C10_SingleStepUnlessBreak ==
    /\ [](pc = "idle" /\ disp.done => ~g_single_run)
    /\ []((disp.done /\ disp.single) =>
             IF disp.broke THEN RLess(disp.passed, g_dt) ELSE disp.passed = g_dt)
    /\ [][(pc = "idle" /\ ~(g_run \/ g_single_run)) =>
             UNCHANGED <<simvars, call, stages>>]_vars
    /\ [][(pc = "idle" /\ (g_run \/ g_single_run)) => ~disp'.done]_vars

\* C10 witness: a single-step display() call has simulated a whole frame
C10_Witness ==
    /\ pc = "idle"
    /\ disp.done
    /\ disp.single
    /\ ~disp.broke
    /\ disp.passed = g_dt
    /\ ~g_run
    /\ ~g_single_run

====
